---- MODULE Spec2Model ----
(***************************************************************************)
(* Schwarzschild geodesic orbits: main.py.                                 *)
(*                                                                         *)
(* geodesic_eqs is the right-hand side of the ODE system for (r, phi, pr); *)
(* simulate_orbit hands it to scipy's solve_ivp with max_step = 0.1 and    *)
(* maps the accepted samples to Cartesian coordinates; main runs it for    *)
(* each orbit of its catalog.                                              *)
(*                                                                         *)
(* Numbers.  Python floats are modelled as rationals <<n, d>> in lowest    *)
(* terms (d > 0); <<0, 0>> stands for every non-finite float (inf, nan).   *)
(* geodesic_eqs is computed exactly.  Finite precision appears where the   *)
(* solver stores a value: the state vector and the derivatives it keeps    *)
(* are rounded to multiples of Ulp, and a magnitude above MaxMag overflows *)
(* to the non-finite value.  The affine parameter is kept in multiples of  *)
(* TUlp.                                                                   *)
(*                                                                         *)
(* The solver.  solve_ivp is library code; it is modelled by its control   *)
(* structure (scipy/integrate/_ivp: OdeSolver.step, RungeKutta._step_impl, *)
(* solve_ivp's loop): an embedded explicit Runge-Kutta pair whose error    *)
(* estimate accepts or rejects each attempt, the step clipped to max_step  *)
(* and to t_bound, failure when the step falls below the spacing of t, and *)
(* the (t, y) of every accepted step appended to the result.  The pair is  *)
(* the two-stage Heun-Euler pair in place of Dormand-Prince 5(4), and the  *)
(* step is halved / doubled in place of scipy's error-proportional factor. *)
(***************************************************************************)
EXTENDS Integers, Sequences, FiniteSets, TLC

VARIABLES
    M,        \* the module global M (black hole mass)
    i,        \* main: number of orbits of the catalog simulated so far
    orbit,    \* main: the orbit whose simulation was called last
    traj,     \* main: the (x, y, r) the last call returned
    pc,       \* "main" | "running" | "spinning" | "solved" | "done"
    t,        \* solver: current affine parameter
    y,        \* solver: current state vector [r, phi, pr]
    f,        \* solver: geodesic_eqs at (t, y)
    h_abs,    \* solver: size of the next step to attempt
    nfev,     \* solver: number of evaluations of geodesic_eqs
    status,   \* solver: "none" | "running" | "finished" | "failed"
    ts,       \* solution.t
    ys,       \* solution.y (one state vector per sample)
    ref       \* an earlier call remembered for comparison: its inputs and result

vars == <<M, i, orbit, traj, pc, t, y, f, h_abs, nfev, status, ts, ys, ref>>

(***************************************************************************)
(* Bounds of the model.                                                    *)
(***************************************************************************)
\* a stored value of magnitude above MaxMag is non-finite (float overflow)
MaxMag == 16

\* spacing of the stored state values and derivatives
Ulp == <<1, 10>>

\* spacing of the affine parameter
TUlp == <<1, 100>>

(***************************************************************************)
(* Rational arithmetic (Python float arithmetic, exact).                   *)
(***************************************************************************)
Abs(a) == IF a < 0 THEN -a ELSE a

RECURSIVE GCD(_, _)
GCD(a, b) == IF b = 0 THEN a ELSE GCD(b, a % b)

NaN == <<0, 0>>

IsNaN(a) == a[2] = 0

Norm(n, d) ==
    IF d = 0 THEN NaN
    ELSE LET g == GCD(Abs(n), Abs(d))
             s == IF d < 0 THEN -1 ELSE 1
         IN  <<s * (n \div g), s * (d \div g)>>

Rat(n, d) == Norm(n, d)

RNeg(a) == IF IsNaN(a) THEN NaN ELSE <<-a[1], a[2]>>

RAdd(a, b) ==
    IF IsNaN(a) \/ IsNaN(b) THEN NaN
    ELSE LET g == GCD(a[2], b[2])
             l == (a[2] \div g) * b[2]
         IN  Norm(a[1] * (l \div a[2]) + b[1] * (l \div b[2]), l)

RSub(a, b) == RAdd(a, RNeg(b))

RMul(a, b) ==
    IF IsNaN(a) \/ IsNaN(b) THEN NaN
    ELSE LET g1 == GCD(Abs(a[1]), b[2])
             g2 == GCD(Abs(b[1]), a[2])
         IN  Norm((a[1] \div g1) * (b[1] \div g2), (a[2] \div g2) * (b[2] \div g1))

\* float division: a zero divisor gives inf or nan, never an exception
\* (the divisor is always a numpy float64)
RDiv(a, b) ==
    IF IsNaN(a) \/ IsNaN(b) \/ b[1] = 0 THEN NaN
    ELSE RMul(a, IF b[1] < 0 THEN <<-b[2], -b[1]>> ELSE <<b[2], b[1]>>)

RECURSIVE RPow(_, _)
RPow(a, k) == IF k = 0 THEN <<1, 1>> ELSE RMul(a, RPow(a, k - 1))

RAbs(a) == IF IsNaN(a) THEN NaN ELSE <<Abs(a[1]), a[2]>>

\* comparisons with a non-finite operand are false, as for nan
RLe(a, b) == ~IsNaN(a) /\ ~IsNaN(b) /\ a[1] * b[2] <= b[1] * a[2]

RLt(a, b) == ~IsNaN(a) /\ ~IsNaN(b) /\ a[1] * b[2] < b[1] * a[2]

RMax(a, b) == IF RLe(a, b) THEN b ELSE a

RMin(a, b) == IF RLe(a, b) THEN a ELSE b

Sign(a) == IF a[1] > 0 THEN 1 ELSE IF a[1] < 0 THEN -1 ELSE 0

\* the float nearest to a: the nearest multiple of Ulp, non-finite on overflow
Fl(a) ==
    IF IsNaN(a) THEN NaN
    ELSE LET k == (2 * a[1] * Ulp[2] + a[2]) \div (2 * a[2])
         IN  IF Abs(k) > MaxMag * Ulp[2] THEN NaN ELSE Norm(k, Ulp[2])

FlVec(v) == [j \in DOMAIN v |-> Fl(v[j])]

\* a step size, truncated to the spacing of the affine parameter
FlT(a) == IF IsNaN(a) THEN NaN ELSE Norm((a[1] * TUlp[2]) \div a[2], TUlp[2])

AnyNaN(v) == \E j \in DOMAIN v : IsNaN(v[j])

\* geodesic_eqs with the relativistic term added instead of subtracted
geodesic_eqs_sign(tau, yv, L) ==
    LET r       == yv[1]
        pr      == yv[3]
        m       == <<M, 1>>
        dphi_dt == RDiv(L, RPow(r, 2))
        dr_dt   == pr
        dpr_dt  == RAdd(RAdd(RDiv(RNeg(m), RPow(r, 2)),
                             RDiv(RPow(L, 2), RPow(r, 3))),
                        RDiv(RMul(RMul(<<3, 1>>, m), RPow(L, 2)), RPow(r, 4)))
    IN  <<dr_dt, dphi_dt, dpr_dt>>

(***************************************************************************)
(* geodesic_eqs(t, y, L): [dr/dtau, dphi/dtau, dpr/dtau]; reads the global *)
(* M.                                                                      *)
(***************************************************************************)
geodesic_eqs(tau, yv, L) ==
    LET r       == yv[1]
        phi     == yv[2]
        pr      == yv[3]
        m       == <<M, 1>>
        dphi_dt == RDiv(L, RPow(r, 2))
        dr_dt   == pr
        dpr_dt  == RSub(RAdd(RDiv(RNeg(m), RPow(r, 2)),
                             RDiv(RPow(L, 2), RPow(r, 3))),
                        RDiv(RMul(RMul(<<3, 1>>, m), RPow(L, 2)), RPow(r, 4)))
    IN  <<dr_dt, dphi_dt, dpr_dt>>

(***************************************************************************)
(* The orbits main may hand to simulate_orbit.  main's catalog holds four  *)
(* fixed orbits; simulate_orbit itself accepts any floats, so the caller   *)
(* is modelled with a set of orbits that covers the cases of its           *)
(* interface: valid ones, a reversed and an empty interval, a zero and a   *)
(* negative initial radius, and one orbit under two labels.                *)
(***************************************************************************)
Orb(L, label, t0, tf, pr0, r0, phi0) ==
    [L |-> Rat(L, 1), label |-> label,
     t_range |-> <<Rat(t0, 10), Rat(tf, 10)>>,
     pr0 |-> Rat(pr0, 1), r0 |-> Rat(r0, 10), phi0 |-> Rat(phi0, 1)]

Orbits ==
    { Orb(4, "Circular", 0, 2, 0, 30, 0),
      Orb(4, "Precessing", 0, 2, 0, 30, 0),
      Orb(4, "Circular", 0, 3, 0, 25, 1),
      Orb(-4, "Scattering", 0, 2, 5, 25, 0),
      Orb(0, "Plunging", 0, 2, -10, 30, 0),
      Orb(0, "Plunging", 0, 3, -10, 4, 1),
      Orb(4, "Plunging", 0, 2, -5, 20, 1),
      Orb(0, "Reversed", 2, 0, -10, 30, 1),
      Orb(4, "Empty", 1, 1, 0, 30, 1),
      Orb(0, "Negative", 0, 2, -1, -10, 1),
      Orb(4, "Zero", 0, 2, 0, 0, 0),
      Orb(0, "Zero", 0, 2, -10, 0, 1) }

\* main's catalog has four orbits
NumOrbits == 4

\* the inputs of simulate_orbit that reach the solver (label does not)
Key(o) == <<o.L, o.t_range, o.pr0, o.r0, o.phi0>>

NoTraj == [x |-> <<>>, y |-> <<>>, r |-> <<>>]

NoOrbit == Orb(0, "", 0, 0, 0, 0, 0)

NoRef == [key |-> <<>>, traj |-> NoTraj, n |-> 0, label |-> ""]

(***************************************************************************)
(* solve_ivp as simulate_orbit calls it: fun = geodesic_eqs, args = (L,),  *)
(* t_span = t_range, y0 = [r0, phi0, pr0], max_step = 0.1, the tolerances  *)
(* left at their defaults.                                                 *)
(***************************************************************************)
max_step == <<1, 10>>

\* rtol is solve_ivp's default 1e-3; atol (default 1e-6) is the value spacing
rtol == <<1, 1000>>

atol == <<1, 100>>

\* the smallest step the solver takes: the spacing of the affine parameter
min_step == TUlp

t_bound == orbit.t_range[2]

\* OdeSolver: sign(t_bound - t0), and 1 for an empty interval
direction ==
    LET s == Sign(RSub(orbit.t_range[2], orbit.t_range[1]))
    IN  IF s = 0 THEN 1 ELSE s

Dir == <<direction, 1>>

\* y0 with the radius forced non-negative
initial_state_clamped(o) == <<RAbs(o.r0), o.phi0, o.pr0>>

\* y0 = [r0, phi0, pr0] (line 69)
initial_state(o) == <<o.r0, o.phi0, o.pr0>>

\* the comparison with t_bound the wrong way round
reached_t_bound_inverted(tn) == direction * Sign(RSub(tn, t_bound)) <= 0

\* an event that ends the solve at the horizon
reached_or_horizon(tn) ==
    \/ direction * Sign(RSub(tn, t_bound)) >= 0
    \/ RLt(<<0, 1>>, y[1]) /\ RLe(y[1], <<2 * M, 1>>)

\* OdeSolver.step: the solver finishes when t has reached t_bound
reached_t_bound(tn) == direction * Sign(RSub(tn, t_bound)) >= 0

\* the first step carried over from the previous solve's last step size
select_initial_step_stale(f0, t0, tb) == {RMax(h_abs, min_step)}

\* select_initial_step: with a finite derivative a step bounded by max_step
\* and by the interval; with a non-finite derivative at y0 the norms it
\* computes are nan, and depending on y0 it returns nan or a tiny step
select_initial_step(f0, t0, tb) ==
    LET len == RAbs(RSub(tb, t0))
    IN  IF AnyNaN(FlVec(f0)) THEN {NaN, RMin(TUlp, len)}
        ELSE {RMin(max_step, len)}

(***************************************************************************)
(* One attempt of RungeKutta._step_impl from (t, y) with step h_abs:       *)
(* t_new is t + h clipped to t_bound, rk_step computes the stages and      *)
(* y_new, and the error estimate of the embedded pair is compared with its *)
(* scale (error_norm < 1, false when anything is non-finite).              *)
(***************************************************************************)
VAdd(a, b) == [j \in DOMAIN a |-> RAdd(a[j], b[j])]

VSub(a, b) == [j \in DOMAIN a |-> RSub(a[j], b[j])]

VScale(c, a) == [j \in DOMAIN a |-> RMul(c, a[j])]

error_within_tolerance(yc, y_new, err) ==
    /\ ~AnyNaN(y_new)
    /\ \A j \in 1..3 :
          RLe(RAbs(err[j]),
              RAdd(atol, RMul(rtol, RMax(RAbs(yc[j]), RAbs(y_new[j])))))

step_attempt ==
    LET tn    == RAdd(t, RMul(Dir, h_abs))
        t_new == IF RLt(<<0, 1>>, RMul(Dir, RSub(tn, t_bound))) THEN t_bound ELSE tn
        h     == RSub(t_new, t)
        K1    == FlVec(f)
        K2    == FlVec(geodesic_eqs(t_new, FlVec(VAdd(y, VScale(h, K1))), orbit.L))
        y_new == FlVec(VAdd(y, VScale(RMul(h, <<1, 2>>), VAdd(K1, K2))))
        err   == VScale(RMul(h, <<1, 2>>), VSub(K2, K1))
    IN  [t_new |-> t_new, h |-> h, y_new |-> y_new,
         step_accepted |-> error_within_tolerance(y, y_new, err)]

\* the step after an accepted one, not clipped to max_step
next_step_unclipped(h) == RMul(<<2, 1>>, RAbs(h))

\* the step after an accepted one: enlarged, and clipped to max_step
next_step(h) == RMin(max_step, RMul(<<2, 1>>, RAbs(h)))

\* the step after a rejected one
reduced_step(h) == FlT(RMul(RAbs(h), <<1, 2>>))

(***************************************************************************)
(* np.cos and np.sin, to two decimals, on angles that are multiples of     *)
(* 1/10 rad (period 63/10).                                                *)
(***************************************************************************)
CosTab ==
    << 100,  100,   98,   96,   92,   88,   83,   76,   70,   62,   54,   45,
        36,   27,   17,    7,   -3,  -13,  -23,  -32,  -42,  -50,  -59,  -67,
       -74,  -80,  -86,  -90,  -94,  -97,  -99, -100, -100,  -99,  -97,  -94,
       -90,  -85,  -79,  -73,  -65,  -57,  -49,  -40,  -31,  -21,  -11,   -1,
         9,   19,   28,   38,   47,   55,   63,   71,   78,   83,   89,   93,
        96,   98,  100 >>

SinTab ==
    <<   0,   10,   20,   30,   39,   48,   56,   64,   72,   78,   84,   89,
        93,   96,   99,  100,  100,   99,   97,   95,   91,   86,   81,   75,
        68,   60,   52,   43,   33,   24,   14,    4,   -6,  -16,  -26,  -35,
       -44,  -53,  -61,  -69,  -76,  -82,  -87,  -92,  -95,  -98,  -99, -100,
      -100,  -98,  -96,  -93,  -88,  -83,  -77,  -71,  -63,  -55,  -46,  -37,
       -28,  -18,   -8 >>

\* the index of angle phi in the tables
Angle(phi) == ((phi[1] * 10) \div phi[2]) % Len(CosTab)

Cos(phi) == IF IsNaN(phi) THEN NaN ELSE Rat(CosTab[Angle(phi) + 1], 100)

Sin(phi) == IF IsNaN(phi) THEN NaN ELSE Rat(SinTab[Angle(phi) + 1], 100)

\* the last sample dropped
to_cartesian_truncated(sol_y) ==
    LET n == Len(sol_y) - 1
    IN  [x |-> [j \in 1..n |-> RMul(sol_y[j][1], Cos(sol_y[j][2]))],
         y |-> [j \in 1..n |-> RMul(sol_y[j][1], Sin(sol_y[j][2]))],
         r |-> [j \in 1..n |-> sol_y[j][1]]]

\* the angle taken from the sample before
to_cartesian_misaligned(sol_y) ==
    LET r   == [j \in DOMAIN sol_y |-> sol_y[j][1]]
        phi == [j \in DOMAIN sol_y |-> sol_y[IF j = 1 THEN 1 ELSE j - 1][2]]
    IN  [x |-> [j \in DOMAIN sol_y |-> RMul(r[j], Cos(phi[j]))],
         y |-> [j \in DOMAIN sol_y |-> RMul(r[j], Sin(phi[j]))],
         r |-> r]

\* y computed with cos, like x
to_cartesian_cos_twice(sol_y) ==
    LET r   == [j \in DOMAIN sol_y |-> sol_y[j][1]]
        phi == [j \in DOMAIN sol_y |-> sol_y[j][2]]
    IN  [x |-> [j \in DOMAIN sol_y |-> RMul(r[j], Cos(phi[j]))],
         y |-> [j \in DOMAIN sol_y |-> RMul(r[j], Cos(phi[j]))],
         r |-> r]

(***************************************************************************)
(* simulate_orbit, lines 81-88: r and phi of every sample of the solution, *)
(* x = r * cos(phi), y = r * sin(phi); returns (x, y, r) and nothing else. *)
(***************************************************************************)
to_cartesian(sol_y) ==
    LET r   == [j \in DOMAIN sol_y |-> sol_y[j][1]]
        phi == [j \in DOMAIN sol_y |-> sol_y[j][2]]
    IN  [x |-> [j \in DOMAIN sol_y |-> RMul(r[j], Cos(phi[j]))],
         y |-> [j \in DOMAIN sol_y |-> RMul(r[j], Sin(phi[j]))],
         r |-> r]

(***************************************************************************)
(* Initial state: main before its loop; M = 1 (line 6).                    *)
(***************************************************************************)
Init ==
    /\ M = 1
    /\ i = 0
    /\ orbit = NoOrbit
    /\ traj = NoTraj
    /\ pc = "main"
    /\ t = <<0, 1>>
    /\ y = <<NaN, NaN, NaN>>
    /\ f = <<NaN, NaN, NaN>>
    /\ h_abs = <<0, 1>>
    /\ nfev = 0
    /\ status = "none"
    /\ ts = <<>>
    /\ ys = <<>>
    /\ ref = NoRef

(***************************************************************************)
(* main calls simulate_orbit(L, label, t_range, pr0, r0, phi0): y0 is      *)
(* built and solve_ivp constructs its solver, which evaluates the field at *)
(* (t0, y0) and selects the first step.  Nothing is checked before.        *)
(***************************************************************************)
Call(o) ==
    /\ pc = "main"
    /\ i < NumOrbits
    /\ LET y0 == initial_state(o)
           t0 == o.t_range[1]
           f0 == geodesic_eqs(t0, y0, o.L)
       IN  /\ y' = y0
           /\ t' = t0
           /\ f' = f0
           /\ h_abs' \in select_initial_step(f0, t0, o.t_range[2])
           /\ ts' = <<t0>>
           /\ ys' = <<y0>>
    /\ orbit' = o
    /\ nfev' = 1
    /\ status' = "running"
    /\ pc' = "running"
    /\ UNCHANGED <<M, i, traj, ref>>

(***************************************************************************)
(* OdeSolver.step when t = t_bound (an empty interval): no integration,    *)
(* the solver finishes; solve_ivp appends (t, y) once more.                *)
(***************************************************************************)
StepTrivial ==
    /\ pc = "running"
    /\ t = t_bound
    /\ status' = "finished"
    /\ ts' = Append(ts, t)
    /\ ys' = Append(ys, y)
    /\ pc' = "solved"
    /\ UNCHANGED <<M, i, orbit, traj, t, y, f, h_abs, nfev, ref>>

(***************************************************************************)
(* An attempt whose error estimate is within tolerance: the step is        *)
(* accepted, (t, y) is appended to the solution, the next step is enlarged *)
(* (never beyond max_step), and the solver finishes on reaching t_bound.   *)
(***************************************************************************)
StepAccept ==
    /\ pc = "running"
    /\ t # t_bound
    /\ ~IsNaN(h_abs)
    /\ ~RLt(h_abs, min_step)
    /\ \E a \in {step_attempt} :
           /\ a.step_accepted
           /\ t' = a.t_new
           /\ y' = a.y_new
           /\ f' = geodesic_eqs(a.t_new, a.y_new, orbit.L)
           /\ h_abs' = next_step(a.h)
           /\ ts' = Append(ts, a.t_new)
           /\ ys' = Append(ys, a.y_new)
           /\ IF reached_t_bound(a.t_new)
                 THEN status' = "finished" /\ pc' = "solved"
                 ELSE status' = "running" /\ pc' = "running"
    /\ nfev' = nfev + 2
    /\ UNCHANGED <<M, i, orbit, traj, ref>>

\* a rejected attempt that leaves its predictor in the state vector
StepRejectInPlace ==
    /\ pc = "running"
    /\ t # t_bound
    /\ ~IsNaN(h_abs)
    /\ ~RLt(h_abs, min_step)
    /\ \E a \in {step_attempt} :
           /\ ~a.step_accepted
           /\ h_abs' = FlT(RMul(RAbs(a.h), <<1, 2>>))
           /\ y' = a.y_new
    /\ nfev' = nfev + 1
    /\ UNCHANGED <<M, i, orbit, traj, pc, t, f, status, ts, ys, ref>>

(***************************************************************************)
(* An attempt whose error estimate is too large or not finite: rejected,   *)
(* the step is reduced and tried again.                                    *)
(***************************************************************************)
StepReject ==
    /\ pc = "running"
    /\ t # t_bound
    /\ ~IsNaN(h_abs)
    /\ ~RLt(h_abs, min_step)
    /\ \E a \in {step_attempt} :
           /\ ~a.step_accepted
           /\ h_abs' = reduced_step(a.h)
    /\ nfev' = nfev + 1
    /\ UNCHANGED <<M, i, orbit, traj, pc, t, y, f, status, ts, ys, ref>>

(***************************************************************************)
(* The step fell below min_step: the solver fails (TOO_SMALL_STEP) and     *)
(* solve_ivp breaks out of its loop with status -1 and the samples so far. *)
(***************************************************************************)
StepTooSmall ==
    /\ pc = "running"
    /\ t # t_bound
    /\ RLt(h_abs, min_step)
    /\ status' = "failed"
    /\ pc' = "solved"
    /\ UNCHANGED <<M, i, orbit, traj, t, y, f, h_abs, nfev, ts, ys, ref>>

(***************************************************************************)
(* A nan step is neither below min_step nor ever accepted, and stays nan   *)
(* when reduced: _step_impl does not leave its loop.                       *)
(***************************************************************************)
Spin ==
    /\ pc = "running"
    /\ t # t_bound
    /\ IsNaN(h_abs)
    /\ pc' = "spinning"
    /\ UNCHANGED <<M, i, orbit, traj, t, y, f, h_abs, nfev, status, ts, ys, ref>>

(***************************************************************************)
(* simulate_orbit returns (x, y, r) to main, which plots it and goes on to *)
(* the next orbit.  The call may be remembered for later comparison.       *)
(***************************************************************************)
Return ==
    /\ pc = "solved"
    /\ traj' = to_cartesian(ys)
    /\ i' = i + 1
    /\ pc' = "main"
    /\ \/ ref' = ref
       \/ /\ ref = NoRef
          /\ ref' = [key |-> Key(orbit), traj |-> traj', n |-> i', label |-> orbit.label]
    /\ UNCHANGED <<M, orbit, t, y, f, h_abs, nfev, status, ts, ys>>

\* main returns after the last orbit
MainExit ==
    /\ pc = "main"
    /\ i = NumOrbits
    /\ pc' = "done"
    /\ UNCHANGED <<M, i, orbit, traj, t, y, f, h_abs, nfev, status, ts, ys, ref>>

Next ==
    \/ \E o \in Orbits : Call(o)
    \/ StepTrivial
    \/ StepAccept
    \/ StepReject
    \/ StepTooSmall
    \/ Spin
    \/ Return
    \/ MainExit

Spec == Init /\ [][Next]_vars

(***************************************************************************)
(* Properties.                                                             *)
(***************************************************************************)
Zero == <<0, 1>>

\* simulate_orbit has returned to main: orbit is the orbit it was called
\* with, (ts, ys, status) the solution it got and traj what it returned
Returned == pc \in {"main", "done"} /\ i > 0

\* a solve is under way or over
Started == status # "none"

\* what the specification calls IntervalMisconfiguration
Misconfigured(o) == ~RLt(o.t_range[1], o.t_range[2]) \/ RLe(o.r0, Zero)

\* the horizon radius 2M
Horizon == <<2 * M, 1>>

(***************************************************************************)
(* C1  Whenever the solver holds geodesic_eqs(t, y, L) for a state with    *)
(* r # 0, the value is (dr, dphi, dpr) in this order with dr = pr,         *)
(* dphi * r^2 = L and dpr * r^4 = -M r^2 + L^2 r - 3 M L^2, and it is the  *)
(* value at affine parameter 0 and angle 0 for the same r, pr and L.       *)
(***************************************************************************)
C1_FieldFormula ==
    (Started /\ y[1][1] # 0) =>
        LET r  == y[1]
            pr == y[3]
            L  == orbit.L
            m  == <<M, 1>>
        IN  /\ Len(f) = 3
            /\ f[1] = pr
            /\ RMul(f[2], RPow(r, 2)) = L
            /\ RMul(f[3], RPow(r, 4)) =
                   RSub(RAdd(RNeg(RMul(m, RPow(r, 2))), RMul(RPow(L, 2), r)),
                        RMul(<<3, 1>>, RMul(m, RPow(L, 2))))
            /\ f = geodesic_eqs(Zero, <<r, Zero, pr>>, L)

\* the field evaluated after accepted steps, at t # 0, phi # 0, with all three
\* terms of dpr present
C1_Witness ==
    /\ status = "running"
    /\ Len(ts) >= 2
    /\ t # Zero
    /\ y[2] # Zero
    /\ orbit.L # Zero
    /\ f[3] # Zero
    /\ f[1] # Zero

(***************************************************************************)
(* C2  (as stated) A call with t_start >= t_end or r0 <= 0 is rejected     *)
(* before any integration work: the field is never evaluated, no step is   *)
(* taken and no trajectory is returned.                                    *)
(***************************************************************************)
C2_RejectedBeforeIntegration ==
    (Started /\ Misconfigured(orbit)) =>
        /\ nfev = 0
        /\ Len(ts) <= 1
        /\ ~Returned

(***************************************************************************)
(* C2  (amended) simulate_orbit checks nothing: with t_start >= t_end or   *)
(* r0 <= 0 the solver is still started from y0 = [r0, phi0, pr0] at        *)
(* t_start, the field is evaluated there, and what the solver hands back   *)
(* is returned, the initial sample first.                                  *)
(***************************************************************************)
C2_NoValidation ==
    (Started /\ Misconfigured(orbit)) =>
        /\ nfev >= 1
        /\ Len(ys) >= 1
        /\ ys[1] = <<orbit.r0, orbit.phi0, orbit.pr0>>
        /\ ts[1] = orbit.t_range[1]
        /\ Returned => (Len(traj.r) >= 1 /\ traj.r[1] = orbit.r0)

\* a trajectory of several samples returned for a negative initial radius
C2_Witness ==
    /\ Returned
    /\ RLt(orbit.r0, Zero)
    /\ Len(traj.r) >= 3
    /\ nfev >= 3

(***************************************************************************)
(* C3  (as stated) When the solver fails before t_end, simulate_orbit      *)
(* returns the partial trajectory together with a status flag.             *)
(***************************************************************************)
C3_StatusFlagReturned ==
    (Returned /\ status = "failed") => "status" \in DOMAIN traj

(***************************************************************************)
(* C3  (amended) When the solver fails before t_end, simulate_orbit        *)
(* returns the x, y, r of the samples accepted so far and nothing else:    *)
(* the solver's status is dropped, so the result carries no flag.          *)
(***************************************************************************)
C3_PartialWithoutFlag ==
    (Returned /\ status = "failed") =>
        /\ DOMAIN traj = {"x", "y", "r"}
        /\ Len(traj.r) = Len(ys)
        /\ \A j \in 1..Len(ys) : traj.r[j] = ys[j][1]
        /\ t # t_bound

\* a failed solve with several accepted samples, returned
C3_Witness ==
    /\ Returned
    /\ status = "failed"
    /\ Len(traj.r) >= 3

(***************************************************************************)
(* The lifecycle of one simulation, read off the solver: NotStarted is     *)
(* main before the call, Integrating is status "running", Completed is     *)
(* "finished", TerminatedEarly is "failed".                                *)
(***************************************************************************)
\* Integrating is entered from main only, with the initial state
EnteredWithInitialState ==
    (status # "running" /\ status' = "running") =>
        /\ pc = "main"
        /\ ts' = <<orbit'.t_range[1]>>
        /\ ys' = << <<orbit'.r0, orbit'.phi0, orbit'.pr0>> >>
        /\ y' = ys'[1]

\* while Integrating, a transition appends one sample or changes no sample
StepAppends ==
    (status = "running" /\ status' = "running") =>
        \/ ts' = ts /\ ys' = ys /\ t' = t /\ y' = y
        \/ ts' = Append(ts, t') /\ ys' = Append(ys, y') /\ t' # t

\* Completed only with the affine parameter at t_end
CompletedAtEnd ==
    (status = "running" /\ status' = "finished") => t' = t_bound

\* the terminal states are left only by the next call
TerminalIsFinal ==
    (status \in {"finished", "failed"}) =>
        \/ status' = status /\ ts' = ts /\ ys' = ys /\ t' = t /\ y' = y
        \/ pc = "main" /\ status' = "running"

\* a solve that is over is in exactly one of the two terminal states
OneTerminalState ==
    /\ pc' = "solved" => status' \in {"finished", "failed"}
    /\ pc' \in {"running", "spinning"} => status' = "running"

\* the derivative at the current sample cannot be evaluated or stored
Unevaluable == RLe(y[1], Zero) \/ AnyNaN(FlVec(f))

AlignedWithSamples ==
    /\ Len(traj.x) = Len(ts)
    /\ Len(traj.y) = Len(ts)
    /\ Len(traj.r) = Len(ts)
    /\ Len(ys) = Len(ts)
    /\ \A j \in 1..Len(ts) :
          /\ traj.r[j] = ys[j][1]
          /\ traj.x[j] = RMul(ys[j][1], Cos(ys[j][2]))
          /\ traj.y[j] = RMul(ys[j][1], Sin(ys[j][2]))
    /\ ts[1] = orbit.t_range[1]
    /\ traj.r[1] = orbit.r0
    /\ traj.x[1] = RMul(orbit.r0, Cos(orbit.phi0))
    /\ traj.y[1] = RMul(orbit.r0, Sin(orbit.phi0))

(***************************************************************************)
(* C5  (as stated) In every returned trajectory x, y and r have the same   *)
(* length, entry j of each belongs to sample j, the first sample is the    *)
(* initial state, and the samples are in order of increasing affine        *)
(* parameter.                                                              *)
(***************************************************************************)
C5_IncreasingOrder ==
    Returned =>
        /\ AlignedWithSamples
        /\ \A j \in 1..(Len(ts) - 1) : RLe(ts[j], ts[j + 1])

(***************************************************************************)
(* C5  (amended) ... and the samples are in the order the solver accepted  *)
(* them, from t_start towards t_end: strictly increasing affine parameter  *)
(* when t_start < t_end, strictly decreasing when t_start > t_end (the     *)
(* call is not rejected), and the initial sample twice when they are equal.*)
(***************************************************************************)
C5_SolverOrder ==
    Returned =>
        /\ AlignedWithSamples
        /\ \A j \in 1..(Len(ts) - 1) :
              IF orbit.t_range[1] = orbit.t_range[2]
                THEN Len(ts) = 2 /\ ts[2] = ts[1] /\ ys[2] = ys[1]
                ELSE direction * Sign(RSub(ts[j + 1], ts[j])) = 1

\* a valid call returned with several samples at distinct angles
C5_Witness ==
    /\ Returned
    /\ RLt(orbit.t_range[1], orbit.t_range[2])
    /\ Len(traj.r) >= 4
    /\ ys[1][2] # ys[4][2]
    /\ orbit.phi0 # orbit.pr0

(***************************************************************************)
(* C6  (as stated) The maximum step is the caller's: whatever bound the    *)
(* caller asks for, consecutive samples are never further apart.           *)
(***************************************************************************)
\* bounds a caller may want to impose
RequestedMaxSteps == {<<1, 20>>, <<1, 10>>, <<1, 5>>}

Spacing(j) == RAbs(RSub(ts[j + 1], ts[j]))

C6_CallerBound ==
    \A b \in RequestedMaxSteps :
        \A j \in 1..(Len(ts) - 1) : RLe(Spacing(j), b)

(***************************************************************************)
(* C6  (amended) simulate_orbit has no max_step parameter (it takes L,     *)
(* label, t_range, pr0, r0, phi0); the bound is fixed at 0.1 in its call   *)
(* of solve_ivp, and consecutive accepted samples are never more than 0.1  *)
(* apart.                                                                  *)
(***************************************************************************)
C6_FixedBound ==
    /\ DOMAIN orbit = {"L", "label", "t_range", "pr0", "r0", "phi0"}
    /\ \A j \in 1..(Len(ts) - 1) : RLe(Spacing(j), <<1, 10>>)

\* three accepted steps, one of them of the full 0.1, in an interval long
\* enough for a larger one
C6_Witness ==
    /\ Len(ts) >= 4
    /\ \E j \in 1..(Len(ts) - 1) : Spacing(j) = <<1, 10>>
    /\ RLt(<<1, 5>>, RAbs(RSub(orbit.t_range[2], orbit.t_range[1])))

(***************************************************************************)
(* C7  In every returned trajectory x[j] = r[j] cos(phi[j]) and            *)
(* y[j] = r[j] sin(phi[j]) with r and phi of the same sample, and          *)
(* x[j]^2 + y[j]^2 = r[j]^2 within the tolerance of the arithmetic, also   *)
(* where r[j] is zero or negative.                                         *)
(***************************************************************************)
\* relative tolerance: cos and sin carry two decimals
Tolerance == <<1, 50>>

C7_CartesianPolar ==
    Returned =>
        \A j \in 1..Len(traj.r) :
            LET r   == traj.r[j]
                phi == ys[j][2]
                sq  == RAdd(RPow(traj.x[j], 2), RPow(traj.y[j], 2))
            IN  /\ r = ys[j][1]
                /\ traj.x[j] = RMul(r, Cos(phi))
                /\ traj.y[j] = RMul(r, Sin(phi))
                /\ RLe(RAbs(RSub(sq, RPow(r, 2))), RMul(Tolerance, RPow(r, 2)))

\* a returned trajectory with a negative radius off both axes
C7_Witness ==
    /\ Returned
    /\ Len(traj.r) >= 3
    /\ \E j \in 1..Len(traj.r) :
          /\ RLt(traj.r[j], Zero)
          /\ traj.x[j] # Zero
          /\ traj.y[j] # Zero
          /\ traj.x[j] # traj.y[j]

(***************************************************************************)
(* C8  Two calls with the same L, r0, phi0, pr0 and interval return the    *)
(* same trajectory, sample for sample, whatever was simulated before or    *)
(* between them and whatever their labels.                                 *)
(***************************************************************************)
C8_Deterministic ==
    (Returned /\ ref.n > 0 /\ ref.key = Key(orbit)) => traj = ref.traj

\* the first and the third call of main had the same inputs under different
\* labels, and integrated several steps
C8_Witness ==
    /\ Returned
    /\ ref.n = 1
    /\ i = 3
    /\ ref.key = Key(orbit)
    /\ ref.label # orbit.label
    /\ Len(traj.r) >= 3

(***************************************************************************)
(* C9  No step of a simulation changes M, the orbit parameters the caller  *)
(* passed (L, the interval and the rest), or - when it only evaluates the  *)
(* field, accepting nothing - the state vector it evaluated it at.         *)
(***************************************************************************)
C9_NoMutation ==
    [][ /\ M' = M
        /\ pc # "main" => orbit' = orbit
        /\ (pc = "running" /\ ys' = ys) => (y' = y /\ t' = t /\ f' = f) ]_vars

\* in a later simulation the field has been evaluated for rejected attempts
C9_Witness ==
    /\ pc = "running"
    /\ i >= 1
    /\ nfev >= 3
    /\ Len(ys) = 1
    /\ y = <<orbit.r0, orbit.phi0, orbit.pr0>>
    /\ M = 1

(***************************************************************************)
(* Integration towards t_end, and what ends it.                            *)
(***************************************************************************)
\* the affine parameter only moves from t_start towards t_end
TowardsEnd == (status = "running" /\ t' # t) => direction * Sign(RSub(t', t)) = 1

\* the current sample is at or inside the horizon, at a positive radius
InsideHorizon == RLt(Zero, y[1]) /\ RLe(y[1], Horizon)

====
